---- MODULE Spec2Model ----
(***************************************************************************)
(* Generalized totalizer encoding (src/src/encodings/pb/gte.rs): the adder *)
(* tree, the range-limited incremental clause generation, the enforcement  *)
(* of bounds, and the inverted (lower bounding) encoder.                    *)
(*                                                                         *)
(* A literal is a non-zero integer: the positive literal of variable v is  *)
(* v + 1 and negation flips the sign.  A clause is the sequence of its     *)
(* literals, a CNF the sequence of its clauses.  A map (HashMap, BTreeMap) *)
(* is a function whose domain is the set of its keys.                      *)
(***************************************************************************)
EXTENDS Integers, Sequences, FiniteSets, TLC

\* Bounds of the model
NumLits == 3
MaxWeight == 2
MaxBound == 2
MaxEntries == 3
MaxEncodes == 2

Lits == 1..NumLits
Weights == 1..MaxWeight
Limits == 0..MaxBound

Min(a, b) == IF a < b THEN a ELSE b
Max(a, b) == IF a > b THEN a ELSE b

EmptyMap == [x \in {} |-> 0]
None == <<>>
Some(a, b) == <<a, b>>

\* Lit::not
Neg(l) == 0 - l
\* Var::pos_lit of the variable with index v
PosLit(v) == v + 1
\* CNF::add_lit_impl_lit: the clause (~a \/ b)
LitImplLit(a, b) == <<Neg(a), b>>
\* CNF::add_cube_impl_lit: the clause (~a \/ ~b \/ c)
CubeImplLit(a, b, c) == <<Neg(a), Neg(b), c>>

\* The keys of a BTreeMap range, in the ascending order the iterator yields them
RECURSIVE SortedSeq(_)
SortedSeq(S) ==
  IF S = {} THEN <<>>
  ELSE LET m == CHOOSE x \in S : \A y \in S : x <= y
       IN <<m>> \o SortedSeq(S \ {m})

RECURSIVE Flatten(_)
Flatten(ss) == IF ss = <<>> THEN <<>> ELSE Head(ss) \o Flatten(Tail(ss))

\* F applied to the value of v, v being evaluated once
Bind(v, F(_)) == CHOOSE y \in {F(x) : x \in {v}} : TRUE

(***************************************************************************)
(* Node                                                                    *)
(***************************************************************************)
NoNode == [kind |-> "none"]

NewLeaf(lit, weight) == [kind |-> "leaf", lit |-> lit, weight |-> weight]

GetDepth(n) == IF n.kind = "leaf" THEN 1 ELSE n.depth

NodeMaxVal(n) == IF n.kind = "leaf" THEN n.weight ELSE n.max_val

NewInternal(left, right) ==
  [kind |-> "internal",
   out_lits |-> EmptyMap,
   depth |-> IF GetDepth(left) > GetDepth(right) THEN GetDepth(left) + 1
             ELSE GetDepth(right) + 1,
   n_clauses |-> 0,
   min_max_enc |-> None,
   max_val |-> NodeMaxVal(left) + NodeMaxVal(right),
   left |-> left,
   right |-> right]

\* One side of get_child_lit_maps: a leaf is the singleton map weight -> lit
ChildLitMap(n) == IF n.kind = "leaf" THEN (n.weight :> n.lit) ELSE n.out_lits

\* The keys a BTreeMap range from Included(lo) to Included(hi) yields
RangeIncl(m, lo, hi) == SortedSeq({k \in DOMAIN m : lo <= k /\ k <= hi})

\* SumPairs skipping the pairs whose sum is max_enc as well
SumPairsShortOfMax(left_lits, right_lits, min_enc, max_enc) ==
  LET right_min(a) == IF min_enc > a THEN min_enc - a ELSE 0
      row(a) ==
        Bind(SelectSeq(RangeIncl(right_lits, right_min(a), max_enc - a),
                       LAMBDA b : ~(a + b >= max_enc \/ a + b < min_enc)),
             LAMBDA kept : [i \in 1..Len(kept) |-> <<a, kept[i]>>])
  IN Bind(SortedSeq({a \in DOMAIN left_lits : 0 < a /\ a < max_enc}),
          LAMBDA lefts : Flatten([i \in 1..Len(lefts) |-> row(lefts[i])]))

\* The (left_val, right_val) pairs the sum loops visit and do not skip, in order
SumPairs(left_lits, right_lits, min_enc, max_enc) ==
  LET right_min(a) == IF min_enc > a THEN min_enc - a ELSE 0
      row(a) ==
        Bind(SelectSeq(RangeIncl(right_lits, right_min(a), max_enc - a),
                       LAMBDA b : ~(a + b > max_enc \/ a + b < min_enc)),
             LAMBDA kept : [i \in 1..Len(kept) |-> <<a, kept[i]>>])
  IN Bind(SortedSeq({a \in DOMAIN left_lits : 0 < a /\ a < max_enc}),
          LAMBDA lefts : Flatten([i \in 1..Len(lefts) |-> row(lefts[i])]))

\* MintAll inserting a new variable for a key out_lits already holds
RECURSIVE MintAllAfresh(_, _, _)
MintAllAfresh(out_lits, keys, nf) ==
  IF keys = <<>> THEN [out_lits |-> out_lits, nf |-> nf]
  ELSE MintAllAfresh([k \in DOMAIN out_lits \cup {Head(keys)} |->
                        IF k = Head(keys) THEN PosLit(nf) ELSE out_lits[k]],
                     Tail(keys), nf + 1)

\* if !out_lits.contains_key(k) { out_lits.insert(k, next_free().pos_lit()) }
\* for the keys of a sequence, in order
RECURSIVE MintAll(_, _, _)
MintAll(out_lits, keys, nf) ==
  IF keys = <<>> THEN [out_lits |-> out_lits, nf |-> nf]
  ELSE IF Head(keys) \in DOMAIN out_lits THEN MintAll(out_lits, Tail(keys), nf)
  ELSE MintAll(out_lits @@ (Head(keys) :> PosLit(nf)), Tail(keys), nf + 1)

\* The keys the three loops of reserve_vars_from_till and of encode_from_till
\* visit: left values, right values, and the pairs summed
LoopKeys(node, min_enc, max_enc) ==
  Bind(<<ChildLitMap(node.left), ChildLitMap(node.right)>>,
       LAMBDA c : [left_lits |-> c[1], right_lits |-> c[2],
                   lv |-> RangeIncl(c[1], min_enc, max_enc),
                   rv |-> RangeIncl(c[2], min_enc, max_enc),
                   pairs |-> SumPairs(c[1], c[2], min_enc, max_enc)])

\* ReserveVarsFromTill without its third loop, over the sums of the pairs
ReserveVarsFromTillOfChildValues(node, min_enc, max_enc, nf) ==
  IF node.kind = "leaf" THEN [node |-> node, nf |-> nf, panic |-> FALSE]
  ELSE IF min_enc > max_enc THEN [node |-> node, nf |-> nf, panic |-> TRUE]
  ELSE
    Bind(LoopKeys(node, min_enc, max_enc), LAMBDA k :
      Bind(MintAll(node.out_lits, k.lv \o k.rv, nf), LAMBDA m1 :
        [node |-> [node EXCEPT !.out_lits = m1.out_lits], nf |-> m1.nf, panic |-> FALSE]))

\* Node::reserve_vars_from_till.  BTreeMap::range panics when its start is
\* above its end, and when both ends are excluded and equal; a map that never
\* held an entry has no root to search and yields nothing instead.
ReserveVarsFromTill(node, min_enc, max_enc, nf) ==
  IF node.kind = "leaf" THEN [node |-> node, nf |-> nf, panic |-> FALSE]
  ELSE IF min_enc > max_enc THEN [node |-> node, nf |-> nf, panic |-> TRUE]
  ELSE
    Bind(LoopKeys(node, min_enc, max_enc), LAMBDA k :
      Bind(MintAll(node.out_lits, k.lv \o k.rv, nf), LAMBDA m1 :
        IF max_enc = 0 /\ DOMAIN k.left_lits # {}
        THEN [node |-> [node EXCEPT !.out_lits = m1.out_lits], nf |-> m1.nf, panic |-> TRUE]
        ELSE Bind(MintAll(m1.out_lits,
                          [i \in 1..Len(k.pairs) |-> k.pairs[i][1] + k.pairs[i][2]], m1.nf),
                  LAMBDA m2 : [node |-> [node EXCEPT !.out_lits = m2.out_lits],
                               nf |-> m2.nf, panic |-> FALSE])))

\* AdderClauses with the right literal left out of the clause of a pair
AdderClausesLeftOnly(node, min_enc, max_enc) ==
  Bind(LoopKeys(node, min_enc, max_enc), LAMBDA k :
    LET out == node.out_lits
        get(v) == IF v \in DOMAIN out THEN out[v] ELSE 0
    IN [cnf |-> [i \in 1..Len(k.lv) |-> LitImplLit(k.left_lits[k.lv[i]], get(k.lv[i]))]
                \o [i \in 1..Len(k.rv) |-> LitImplLit(k.right_lits[k.rv[i]], get(k.rv[i]))]
                \o [i \in 1..Len(k.pairs) |->
                      LitImplLit(k.left_lits[k.pairs[i][1]],
                                 get(k.pairs[i][1] + k.pairs[i][2]))],
        panic |-> \/ \E i \in 1..Len(k.lv) : k.lv[i] \notin DOMAIN out
                  \/ \E i \in 1..Len(k.rv) : k.rv[i] \notin DOMAIN out
                  \/ \E i \in 1..Len(k.pairs) : k.pairs[i][1] + k.pairs[i][2] \notin DOMAIN out])

\* The clauses of Node::encode_from_till on a node whose variables are reserved.
\* A failing unwrap of out_lits.get is a panic.
AdderClauses(node, min_enc, max_enc) ==
  Bind(LoopKeys(node, min_enc, max_enc), LAMBDA k :
    LET out == node.out_lits
        get(v) == IF v \in DOMAIN out THEN out[v] ELSE 0
    IN [cnf |-> [i \in 1..Len(k.lv) |-> LitImplLit(k.left_lits[k.lv[i]], get(k.lv[i]))]
                \o [i \in 1..Len(k.rv) |-> LitImplLit(k.right_lits[k.rv[i]], get(k.rv[i]))]
                \o [i \in 1..Len(k.pairs) |->
                      CubeImplLit(k.left_lits[k.pairs[i][1]], k.right_lits[k.pairs[i][2]],
                                  get(k.pairs[i][1] + k.pairs[i][2]))],
        panic |-> \/ \E i \in 1..Len(k.lv) : k.lv[i] \notin DOMAIN out
                  \/ \E i \in 1..Len(k.rv) : k.rv[i] \notin DOMAIN out
                  \/ \E i \in 1..Len(k.pairs) : k.pairs[i][1] + k.pairs[i][2] \notin DOMAIN out])

\* EncodeFromTill without the return for min_enc above max_enc
EncodeFromTillUnguarded(node, min_enc, max_enc, nf) ==
  Bind(ReserveVarsFromTill(node, min_enc, max_enc, nf), LAMBDA r :
    IF r.panic \/ node.kind = "leaf" \/ min_enc > NodeMaxVal(node)
    THEN [node |-> r.node, cnf |-> <<>>, nf |-> r.nf, panic |-> r.panic]
    ELSE Bind(AdderClauses(r.node, min_enc, max_enc), LAMBDA c :
           [node |-> r.node, cnf |-> c.cnf, nf |-> r.nf, panic |-> c.panic]))

\* Node::encode_from_till
EncodeFromTill(node, min_enc, max_enc, nf) ==
  IF min_enc > max_enc THEN [node |-> node, cnf |-> <<>>, nf |-> nf, panic |-> FALSE]
  ELSE
    Bind(ReserveVarsFromTill(node, min_enc, max_enc, nf), LAMBDA r :
      IF r.panic \/ node.kind = "leaf" \/ min_enc > NodeMaxVal(node)
      THEN [node |-> r.node, cnf |-> <<>>, nf |-> r.nf, panic |-> r.panic]
      ELSE Bind(AdderClauses(r.node, min_enc, max_enc), LAMBDA c :
             [node |-> r.node, cnf |-> c.cnf, nf |-> r.nf, panic |-> c.panic]))

\* ComputeRequiredMinEnc taking two, not one, for the least weight of a leaf
ComputeRequiredMinEncLessTwo(min_enc_requested, max_enc_requested, sibling) ==
  IF sibling.kind = "leaf"
  THEN IF min_enc_requested > 2 THEN min_enc_requested - 2 ELSE 1
  ELSE IF max_enc_requested < sibling.max_val
       THEN IF min_enc_requested > max_enc_requested
            THEN min_enc_requested - max_enc_requested
            ELSE 1
       ELSE IF min_enc_requested > sibling.max_val
            THEN min_enc_requested - sibling.max_val
            ELSE 1

\* Node::compute_required_min_enc
ComputeRequiredMinEnc(min_enc_requested, max_enc_requested, sibling) ==
  IF sibling.kind = "leaf"
  THEN IF min_enc_requested > 2 THEN min_enc_requested - 1 ELSE 1
  ELSE IF max_enc_requested < sibling.max_val
       THEN IF min_enc_requested > max_enc_requested
            THEN min_enc_requested - max_enc_requested
            ELSE 1
       ELSE IF min_enc_requested > sibling.max_val
            THEN min_enc_requested - sibling.max_val
            ELSE 1

\* The window Node::encode_rec records
RecWindow(node, min_enc, max_enc) == Some(min_enc, Min(node.max_val, max_enc))

\* Node::encode_rec
RECURSIVE EncodeRec(_, _, _, _)
EncodeRec(node, min_enc, max_enc, nf) ==
  IF node.kind = "leaf" THEN [node |-> node, cnf |-> <<>>, nf |-> nf, panic |-> FALSE]
  ELSE
    Bind(EncodeRec(node.left, ComputeRequiredMinEnc(min_enc, max_enc, node.right),
                   max_enc, nf), LAMBDA l :
      Bind(EncodeRec(node.right, ComputeRequiredMinEnc(min_enc, max_enc, node.left),
                     max_enc, l.nf), LAMBDA r :
        Bind(EncodeFromTill([node EXCEPT !.left = l.node, !.right = r.node],
                            min_enc, max_enc, r.nf), LAMBDA e :
          [node |-> [e.node EXCEPT !.min_max_enc = RecWindow(node, min_enc, max_enc),
                                   !.n_clauses = @ + Len(e.cnf)],
           cnf |-> l.cnf \o r.cnf \o e.cnf,
           nf |-> e.nf,
           panic |-> l.panic \/ r.panic \/ e.panic])))

\* ChangeWindow recording the window of the call alone, as encode_rec does
ChangeWindowOfCall(node, min_enc, max_enc) == Some(min_enc, Min(max_enc, node.max_val))

\* ChangeWindow recording the greater of the two lower ends
ChangeWindowOfGreaterMin(node, min_enc, max_enc) ==
  IF node.min_max_enc # None
  THEN Some(Max(min_enc, node.min_max_enc[1]),
            Min(node.max_val, Max(max_enc, node.min_max_enc[2])))
  ELSE Some(min_enc, Min(max_enc, node.max_val))

\* The window Node::encode_change_rec records
ChangeWindow(node, min_enc, max_enc) ==
  IF node.min_max_enc # None
  THEN Some(Min(min_enc, node.min_max_enc[1]),
            Min(node.max_val, Max(max_enc, node.min_max_enc[2])))
  ELSE Some(min_enc, Min(max_enc, node.max_val))

\* EncodeChangeLocal encoding the whole window of the call again
EncodeChangeLocalFromScratch(node, min_enc, max_enc, nf) ==
  EncodeFromTill(node, min_enc, max_enc, nf)

\* EncodeChangeLocal encoding again the upper end of the recorded window
EncodeChangeLocalFromUpperEnd(node, min_enc, max_enc, nf) ==
  IF node.min_max_enc = None THEN EncodeFromTill(node, min_enc, max_enc, nf)
  ELSE
    Bind(IF min_enc < node.min_max_enc[1]
         THEN EncodeFromTill(node, min_enc, node.min_max_enc[1] - 1, nf)
         ELSE [node |-> node, cnf |-> <<>>, nf |-> nf, panic |-> FALSE], LAMBDA lo :
      Bind(IF max_enc >= node.min_max_enc[2]
           THEN EncodeFromTill(lo.node, node.min_max_enc[2], max_enc, lo.nf)
           ELSE [node |-> lo.node, cnf |-> <<>>, nf |-> lo.nf, panic |-> FALSE], LAMBDA hi :
        [node |-> hi.node, cnf |-> lo.cnf \o hi.cnf, nf |-> hi.nf,
         panic |-> lo.panic \/ hi.panic]))

\* The local encoding of Node::encode_change_rec: only what lies outside the
\* window already encoded
EncodeChangeLocal(node, min_enc, max_enc, nf) ==
  IF node.min_max_enc = None THEN EncodeFromTill(node, min_enc, max_enc, nf)
  ELSE
    Bind(IF min_enc < node.min_max_enc[1]
         THEN EncodeFromTill(node, min_enc, node.min_max_enc[1] - 1, nf)
         ELSE [node |-> node, cnf |-> <<>>, nf |-> nf, panic |-> FALSE], LAMBDA lo :
      Bind(IF max_enc > node.min_max_enc[2]
           THEN EncodeFromTill(lo.node, node.min_max_enc[2] + 1, max_enc, lo.nf)
           ELSE [node |-> lo.node, cnf |-> <<>>, nf |-> lo.nf, panic |-> FALSE], LAMBDA hi :
        [node |-> hi.node, cnf |-> lo.cnf \o hi.cnf, nf |-> hi.nf,
         panic |-> lo.panic \/ hi.panic]))

\* Node::encode_change_rec
RECURSIVE EncodeChangeRec(_, _, _, _)
EncodeChangeRec(node, min_enc, max_enc, nf) ==
  IF node.kind = "leaf" THEN [node |-> node, cnf |-> <<>>, nf |-> nf, panic |-> FALSE]
  ELSE
    Bind(EncodeChangeRec(node.left, ComputeRequiredMinEnc(min_enc, max_enc, node.right),
                         max_enc, nf), LAMBDA l :
      Bind(EncodeChangeRec(node.right, ComputeRequiredMinEnc(min_enc, max_enc, node.left),
                           max_enc, l.nf), LAMBDA r :
        Bind(EncodeChangeLocal([node EXCEPT !.left = l.node, !.right = r.node],
                               min_enc, max_enc, r.nf), LAMBDA e :
          [node |-> [e.node EXCEPT !.n_clauses = @ + Len(e.cnf),
                                   !.min_max_enc = ChangeWindow(node, min_enc, max_enc)],
           cnf |-> l.cnf \o r.cnf \o e.cnf,
           nf |-> e.nf,
           panic |-> l.panic \/ r.panic \/ e.panic])))

\* ReserveAllVars stopping one short of max_val
ReserveAllVarsBelowMax(node, nf) ==
  IF node.kind = "leaf" THEN [node |-> node, nf |-> nf, panic |-> FALSE]
  ELSE ReserveVarsFromTill(node, 0, node.max_val - 1, nf)

\* Node::reserve_all_vars
ReserveAllVars(node, nf) ==
  IF node.kind = "leaf" THEN [node |-> node, nf |-> nf, panic |-> FALSE]
  ELSE ReserveVarsFromTill(node, 0, node.max_val, nf)

\* Node::reserve_all_vars_rec
RECURSIVE ReserveAllVarsRec(_, _)
ReserveAllVarsRec(node, nf) ==
  IF node.kind = "leaf" THEN [node |-> node, nf |-> nf, panic |-> FALSE]
  ELSE
    Bind(ReserveAllVarsRec(node.left, nf), LAMBDA l :
      Bind(ReserveAllVarsRec(node.right, l.nf), LAMBDA r :
        Bind(ReserveAllVars([node EXCEPT !.left = l.node, !.right = r.node], r.nf),
             LAMBDA s : [node |-> s.node, nf |-> s.nf,
                         panic |-> l.panic \/ r.panic \/ s.panic])))

(***************************************************************************)
(* GeneralizedTotalizer and InvertedGeneralizedTotalizer                   *)
(***************************************************************************)
VARIABLES
  inverted,         \* FALSE: GeneralizedTotalizer, TRUE: InvertedGeneralizedTotalizer
  reserve_vars,
  in_lits,
  lit_buffer,
  root,
  max_leaf_weight,
  total_weight,
  n_vars,
  n_clauses,
  next_free,        \* the variable manager: the next free variable, n_used()
  panicked,         \* a panic ended the program
  last,             \* the last add or encode call and what it returned
  emitted,          \* every clause an encode call has returned
  first,            \* the first successful encode call, and whether an add followed it
  n_encs,           \* encode calls so far
  added,            \* for every literal, the sum of the weights added for it
  n_returned,       \* the number of clauses the encode calls have returned
  data,             \* Encoding::data: the sizes of the facility-location instance
  next_line,        \* Encoding::next_line
  yielded,          \* the lines next() has returned, in order
  n_nones           \* the calls of next() that returned None

enc == <<inverted, reserve_vars, in_lits, lit_buffer, root, max_leaf_weight,
         total_weight, n_vars, n_clauses>>
vars == <<inverted, reserve_vars, in_lits, lit_buffer, root, max_leaf_weight,
          total_weight, n_vars, n_clauses, next_free, panicked, last,
          emitted, first, n_encs, added, n_returned,
          data, next_line, yielded, n_nones>>

\* The facility-location iterator
fl == <<data, next_line, yielded, n_nones>>

SeqToSet(s) == {s[i] : i \in 1..Len(s)}

\* The orders in which a HashMap may yield its keys
RECURSIVE Perms(_)
Perms(S) ==
  IF S = {} THEN {<<>>}
  ELSE UNION {{<<x>> \o p : p \in Perms(S \ {x})} : x \in S}

\* sort_by(|(_, w1), (_, w2)| w1.cmp(w2)): a stable sort by weight
RECURSIVE SortByWeight(_)
SortByWeight(s) ==
  IF s = <<>> THEN <<>>
  ELSE Bind(SortByWeight(SubSeq(s, 1, Len(s) - 1)), LAMBDA init :
         SelectSeq(init, LAMBDA y : y[2] <= s[Len(s)][2])
           \o <<s[Len(s)]>>
           \o SelectSeq(init, LAMBDA y : y[2] > s[Len(s)][2]))

\* GeneralizedTotalizer::build_tree
RECURSIVE BuildTree(_)
BuildTree(lits) ==
  IF Len(lits) = 1 THEN NewLeaf(lits[1][1], lits[1][2])
  ELSE LET split == Len(lits) \div 2
       IN NewInternal(BuildTree(SubSeq(lits, 1, split)),
                      BuildTree(SubSeq(lits, split + 1, Len(lits))))

\* NewLits keeping the weights below max_weight alone
NewLitsBelowCap(inv, buf, max_weight, iter) ==
  Bind(SelectSeq(iter, LAMBDA l : buf[l] < max_weight), LAMBDA kept :
    SortByWeight([i \in 1..Len(kept) |->
                    <<IF inv THEN Neg(kept[i]) ELSE kept[i], buf[kept[i]]>>]))

\* The filter_map of extend_tree over the buffer iterated in the order iter:
\* the admitted (literal, weight) pairs; the inverted encoder negates the literal
NewLits(inv, buf, max_weight, iter) ==
  Bind(SelectSeq(iter, LAMBDA l : buf[l] <= max_weight), LAMBDA kept :
    SortByWeight([i \in 1..Len(kept) |->
                    <<IF inv THEN Neg(kept[i]) ELSE kept[i], buf[kept[i]]>>]))

\* Every sorted new_lits some iteration order of the buffer gives
NewLitsOrders(inv, buf, max_weight) ==
  {NewLits(inv, buf, max_weight, iter) : iter \in Perms(DOMAIN buf)}

\* The max_leaf_weight the filter_map of extend_tree leaves
TrackedMaxLeafWeight(e, max_weight) ==
  LET ws == {e.lit_buffer[l] : l \in {k \in DOMAIN e.lit_buffer : e.lit_buffer[k] <= max_weight}}
  IN IF ws = {} THEN e.max_leaf_weight
     ELSE Max(e.max_leaf_weight, CHOOSE w \in ws : \A v \in ws : v <= w)

\* MovedInputs replacing the weight of a literal that is in the tree already
MovedInputsReplacing(e, max_weight) ==
  Bind({l \in DOMAIN e.lit_buffer : e.lit_buffer[l] <= max_weight}, LAMBDA admitted :
    [in_lits |-> [l \in DOMAIN e.in_lits \cup admitted |->
                    IF l \notin admitted THEN e.in_lits[l] ELSE e.lit_buffer[l]],
     lit_buffer |-> [l \in DOMAIN e.lit_buffer \ admitted |-> e.lit_buffer[l]]])

\* The in_lits and lit_buffer extend_tree leaves once it has admitted inputs
MovedInputs(e, max_weight) ==
  Bind({l \in DOMAIN e.lit_buffer : e.lit_buffer[l] <= max_weight}, LAMBDA admitted :
    [in_lits |-> [l \in DOMAIN e.in_lits \cup admitted |->
                    IF l \notin admitted THEN e.in_lits[l]
                    ELSE IF l \in DOMAIN e.in_lits
                         THEN e.in_lits[l] + e.lit_buffer[l]
                         ELSE e.lit_buffer[l]],
     lit_buffer |-> [l \in DOMAIN e.lit_buffer \ admitted |-> e.lit_buffer[l]]])

\* extend_tree (of both encoders) on the encoder e, new_lits being the sorted
\* admitted pairs
ExtendTree(e, max_weight, new_lits, nf) ==
  IF DOMAIN e.lit_buffer = {} THEN [e |-> e, nf |-> nf, panic |-> FALSE]
  ELSE IF new_lits = <<>>
  THEN [e |-> [e EXCEPT !.max_leaf_weight = TrackedMaxLeafWeight(e, max_weight)],
        nf |-> nf, panic |-> FALSE]
  ELSE
    Bind(IF e.reserve_vars THEN ReserveAllVarsRec(BuildTree(new_lits), nf)
         ELSE [node |-> BuildTree(new_lits), nf |-> nf, panic |-> FALSE], LAMBDA subtree :
      Bind(IF e.root = NoNode THEN subtree
           ELSE IF e.reserve_vars
                THEN ReserveAllVars(NewInternal(e.root, subtree.node), subtree.nf)
                ELSE [node |-> NewInternal(e.root, subtree.node),
                      nf |-> subtree.nf, panic |-> FALSE], LAMBDA merged :
        Bind(MovedInputs(e, max_weight), LAMBDA moved :
          [e |-> [e EXCEPT !.max_leaf_weight = TrackedMaxLeafWeight(e, max_weight),
                           !.root = merged.node,
                           !.in_lits = moved.in_lits,
                           !.lit_buffer = moved.lit_buffer],
           nf |-> merged.nf,
           panic |-> subtree.panic \/ merged.panic])))

\* The encoder as a record
Self == [inverted |-> inverted, reserve_vars |-> reserve_vars, in_lits |-> in_lits,
         lit_buffer |-> lit_buffer, root |-> root, max_leaf_weight |-> max_leaf_weight,
         total_weight |-> total_weight, n_vars |-> n_vars, n_clauses |-> n_clauses]

\* new() and new_reserving() of both encoders
NewEncoder(inv, reserving) ==
  [inverted |-> inv, reserve_vars |-> reserving, in_lits |-> EmptyMap,
   lit_buffer |-> EmptyMap, root |-> NoNode, max_leaf_weight |-> 0,
   total_weight |-> 0, n_vars |-> 0, n_clauses |-> 0]

RECURSIVE SumOver(_, _)
SumOver(m, S) ==
  IF S = {} THEN 0
  ELSE LET x == CHOOSE y \in S : TRUE IN m[x] + SumOver(m, S \ {x})

\* add (of both encoders) of the map lits
AddLits(e, lits) ==
  [e EXCEPT !.total_weight = @ + SumOver(lits, DOMAIN lits),
            !.lit_buffer = [l \in DOMAIN e.lit_buffer \cup DOMAIN lits |->
                              IF l \notin DOMAIN lits THEN e.lit_buffer[l]
                              ELSE IF l \in DOMAIN e.lit_buffer
                                   THEN e.lit_buffer[l] + lits[l]
                                   ELSE lits[l]]]

\* EncodeUbBody setting n_clauses to the clauses of this call alone
EncodeUbBodyCountingCall(e, change, min_ub, max_ub, new_lits, nf) ==
  Bind(ExtendTree(e, max_ub, new_lits, nf), LAMBDA x :
    Bind(IF x.e.root = NoNode
         THEN [node |-> NoNode, cnf |-> <<>>, nf |-> x.nf, panic |-> FALSE]
         ELSE IF change
              THEN EncodeChangeRec(x.e.root, min_ub + 1, max_ub + x.e.max_leaf_weight, x.nf)
              ELSE EncodeRec(x.e.root, min_ub + 1, max_ub + x.e.max_leaf_weight, x.nf),
         LAMBDA r :
      [e |-> [x.e EXCEPT !.root = r.node,
                         !.n_clauses = Len(r.cnf),
                         !.n_vars = @ + (r.nf - nf)],
       cnf |-> r.cnf, nf |-> r.nf, panic |-> x.panic \/ r.panic]))

\* The body of encode_ub (change = FALSE) and encode_ub_change (change = TRUE)
\* past the check of the limits
EncodeUbBody(e, change, min_ub, max_ub, new_lits, nf) ==
  Bind(ExtendTree(e, max_ub, new_lits, nf), LAMBDA x :
    Bind(IF x.e.root = NoNode
         THEN [node |-> NoNode, cnf |-> <<>>, nf |-> x.nf, panic |-> FALSE]
         ELSE IF change
              THEN EncodeChangeRec(x.e.root, min_ub + 1, max_ub + x.e.max_leaf_weight, x.nf)
              ELSE EncodeRec(x.e.root, min_ub + 1, max_ub + x.e.max_leaf_weight, x.nf),
         LAMBDA r :
      [e |-> [x.e EXCEPT !.root = r.node,
                         !.n_clauses = @ + Len(r.cnf),
                         !.n_vars = @ + (r.nf - nf)],
       cnf |-> r.cnf, nf |-> r.nf, panic |-> x.panic \/ r.panic]))

\* EnforceTree taking a buffered weight equal to ub for encoded
EnforceTreeBelow(e, ub) ==
  LET heavy == {l \in DOMAIN e.lit_buffer : e.lit_buffer[l] > ub}
                 \cup {l \in DOMAIN e.in_lits : e.in_lits[l] > ub}
      inputs == {IF e.inverted THEN l ELSE Neg(l) : l \in heavy}
      ok(tree) == [res |-> "Ok", assumps |-> inputs \cup tree]
      err(kind) == [res |-> kind, assumps |-> {}]
  IN IF \E l \in DOMAIN e.lit_buffer : e.lit_buffer[l] < ub THEN err("NotEncoded")
     ELSE IF e.root = NoNode
          THEN IF DOMAIN e.in_lits = {} THEN ok({}) ELSE err("Panic")
     ELSE IF e.root.kind = "leaf" THEN ok({})
     ELSE IF ub >= e.root.max_val THEN ok({})
     ELSE IF e.root.min_max_enc # None
          THEN IF \/ e.root.min_max_enc[2] < Min(ub + e.max_leaf_weight, e.root.max_val)
                  \/ e.root.min_max_enc[1] > ub + 1
               THEN err("NotEncoded")
               ELSE ok({Neg(e.root.out_lits[v]) :
                          v \in {k \in DOMAIN e.root.out_lits :
                                   ub < k /\ k <= ub + e.max_leaf_weight}})
     ELSE err("NotEncoded")

\* EnforceTree assuming nothing of the inputs that are in the tree
EnforceTreeOfBuffer(e, ub) ==
  LET heavy == {l \in DOMAIN e.lit_buffer : e.lit_buffer[l] > ub}
      inputs == {IF e.inverted THEN l ELSE Neg(l) : l \in heavy}
      ok(tree) == [res |-> "Ok", assumps |-> inputs \cup tree]
      err(kind) == [res |-> kind, assumps |-> {}]
  IN IF \E l \in DOMAIN e.lit_buffer : e.lit_buffer[l] <= ub THEN err("NotEncoded")
     ELSE IF e.root = NoNode
          THEN IF DOMAIN e.in_lits = {} THEN ok({}) ELSE err("Panic")
     ELSE IF e.root.kind = "leaf" THEN ok({})
     ELSE IF ub >= e.root.max_val THEN ok({})
     ELSE IF e.root.min_max_enc # None
          THEN IF \/ e.root.min_max_enc[2] < Min(ub + e.max_leaf_weight, e.root.max_val)
                  \/ e.root.min_max_enc[1] > ub + 1
               THEN err("NotEncoded")
               ELSE ok({Neg(e.root.out_lits[v]) :
                          v \in {k \in DOMAIN e.root.out_lits :
                                   ub < k /\ k <= ub + e.max_leaf_weight}})
     ELSE err("NotEncoded")

\* The part of enforce_ub and enforce_lb the two share: ub is the upper bound
\* on the tree, and an input that is too heavy is assumed false (enforce_ub)
\* or, its leaf holding the negation, true (enforce_lb)
EnforceTree(e, ub) ==
  LET heavy == {l \in DOMAIN e.lit_buffer : e.lit_buffer[l] > ub}
                 \cup {l \in DOMAIN e.in_lits : e.in_lits[l] > ub}
      inputs == {IF e.inverted THEN l ELSE Neg(l) : l \in heavy}
      ok(tree) == [res |-> "Ok", assumps |-> inputs \cup tree]
      err(kind) == [res |-> kind, assumps |-> {}]
  IN IF \E l \in DOMAIN e.lit_buffer : e.lit_buffer[l] <= ub THEN err("NotEncoded")
     ELSE IF e.root = NoNode
          THEN IF DOMAIN e.in_lits = {} THEN ok({}) ELSE err("Panic")
     ELSE IF e.root.kind = "leaf" THEN ok({})
     ELSE IF ub >= e.root.max_val THEN ok({})
     ELSE IF e.root.min_max_enc # None
          THEN IF \/ e.root.min_max_enc[2] < Min(ub + e.max_leaf_weight, e.root.max_val)
                  \/ e.root.min_max_enc[1] > ub + 1
               THEN err("NotEncoded")
               ELSE ok({Neg(e.root.out_lits[v]) :
                          v \in {k \in DOMAIN e.root.out_lits :
                                   ub < k /\ k <= ub + e.max_leaf_weight}})
     ELSE err("NotEncoded")

\* GeneralizedTotalizer::enforce_ub
EnforceUbOf(e, ub) == EnforceTree(e, ub)

\* InvertedGeneralizedTotalizer::convert_lb_ub; -1 stands for Err(Unsat)
ConvertLbUb(e, bound) == IF e.total_weight > bound THEN e.total_weight - bound ELSE 0 - 1

\* convert_lb_ub(bound).unwrap_or(0)
ConvertLbUbOr0(e, bound) == IF ConvertLbUb(e, bound) < 0 THEN 0 ELSE ConvertLbUb(e, bound)

\* InvertedGeneralizedTotalizer::enforce_lb
EnforceLbOf(e, lb) ==
  IF ConvertLbUb(e, lb) < 0 THEN [res |-> "Unsat", assumps |-> {}]
  ELSE EnforceTree(e, ConvertLbUb(e, lb))

\* The body of encode_lb (change = FALSE) and encode_lb_change (change = TRUE)
\* past the check of the limits
EncodeLbBody(e, change, min_lb, max_lb, new_lits, nf) ==
  EncodeUbBody(e, change, ConvertLbUbOr0(e, max_lb), ConvertLbUbOr0(e, min_lb), new_lits, nf)

\* The cap extend_tree is called with by an encode call of the encoder e
ExtendCap(e, lo, hi) == IF e.inverted THEN ConvertLbUbOr0(e, lo) ELSE hi

(***************************************************************************)
(* The state machine: one encoder, a variable manager, and its caller      *)
(***************************************************************************)
\* No facility-location iterator has been built
NoEncoding ==
  <<[n_objs |-> 0, n_customers |-> 0, n_facilities |-> 0],
    [kind |-> "None", a |-> 0, b |-> 0], <<>>, 0>>

SetInitFl(t) ==
  /\ data = t[1]
  /\ next_line = t[2]
  /\ yielded = t[3]
  /\ n_nones = t[4]

NoCall == [op |-> "new", min |-> 0, max |-> 0, res |-> "Ok", cnf |-> <<>>, minted |-> 0]
NoFirst == [op |-> "none", min |-> 0, max |-> 0, buf |-> EmptyMap, cnf |-> <<>>,
            added |-> FALSE]

SetEnc(e) ==
  /\ inverted' = e.inverted
  /\ reserve_vars' = e.reserve_vars
  /\ in_lits' = e.in_lits
  /\ lit_buffer' = e.lit_buffer
  /\ root' = e.root
  /\ max_leaf_weight' = e.max_leaf_weight
  /\ total_weight' = e.total_weight
  /\ n_vars' = e.n_vars
  /\ n_clauses' = e.n_clauses

SetInit(e) ==
  /\ inverted = e.inverted
  /\ reserve_vars = e.reserve_vars
  /\ in_lits = e.in_lits
  /\ lit_buffer = e.lit_buffer
  /\ root = e.root
  /\ max_leaf_weight = e.max_leaf_weight
  /\ total_weight = e.total_weight
  /\ n_vars = e.n_vars
  /\ n_clauses = e.n_clauses

\* An encoder of either kind, reserving or not.  The variables of the input
\* literals are in use before the encoder mints any
Init ==
  /\ \E inv \in BOOLEAN, reserving \in BOOLEAN : SetInit(NewEncoder(inv, reserving))
  /\ next_free = NumLits
  /\ panicked = FALSE
  /\ last = NoCall
  /\ emitted = {}
  /\ first = NoFirst
  /\ n_encs = 0
  /\ added = [l \in Lits |-> 0]
  /\ n_returned = 0
  /\ SetInitFl(NoEncoding)

RECURSIVE CountLeaves(_)
CountLeaves(n) ==
  IF n.kind = "none" THEN 0
  ELSE IF n.kind = "leaf" THEN 1
  ELSE CountLeaves(n.left) + CountLeaves(n.right)

AddMaps == UNION {[S -> Weights] : S \in SUBSET Lits \ {{}}}

\* The model stops adding when the tree and the buffer would hold more than
\* MaxEntries inputs, or the buffer a weight above MaxWeight, and a run ends
\* with its last encode call
Add ==
  /\ ~panicked
  /\ n_encs < MaxEncodes
  /\ \E lits \in AddMaps :
       \E e \in {AddLits(Self, lits)} :
          /\ CountLeaves(root) + Cardinality(DOMAIN e.lit_buffer) <= MaxEntries
          /\ \A l \in DOMAIN e.lit_buffer : e.lit_buffer[l] <= MaxWeight
          /\ SetEnc(e)
          /\ added' = [l \in Lits |-> added[l] + IF l \in DOMAIN lits THEN lits[l] ELSE 0]
  /\ last' = [NoCall EXCEPT !.op = "add"]
  /\ first' = IF first.op = "none" THEN first ELSE [first EXCEPT !.added = TRUE]
  /\ UNCHANGED <<next_free, panicked, emitted, n_encs, n_returned, fl>>

\* add of one literal with the weight zero
AddZeroMaps == {[x \in {l} |-> 0] : l \in Lits}

AddZero ==
  /\ ~panicked
  /\ n_encs < MaxEncodes
  /\ \E lits \in AddZeroMaps :
       \E e \in {AddLits(Self, lits)} :
          /\ CountLeaves(root) + Cardinality(DOMAIN e.lit_buffer) <= MaxEntries
          /\ SetEnc(e)
  /\ last' = [NoCall EXCEPT !.op = "add_zero"]
  /\ first' = IF first.op = "none" THEN first ELSE [first EXCEPT !.added = TRUE]
  /\ UNCHANGED <<next_free, panicked, emitted, n_encs, added, n_returned, fl>>

\* Invalid minting a variable before the check of the limits
InvalidMinting(op, lo, hi) ==
  /\ lo > hi
  /\ last' = [NoCall EXCEPT !.op = op, !.res = "InvalidLimits"]
  /\ next_free' = next_free + 1
  /\ UNCHANGED <<enc, panicked, emitted, first, n_encs, added, n_returned, fl>>

\* An encode call that fails the check of its limits
Invalid(op, lo, hi) ==
  /\ lo > hi
  /\ last' = [NoCall EXCEPT !.op = op, !.res = "InvalidLimits"]
  /\ UNCHANGED <<enc, next_free, panicked, emitted, first, n_encs, added, n_returned, fl>>

\* An encode call past the check of its limits, r being what its body computes
Encoded(op, lo, hi, r) ==
  IF r.panic
  THEN /\ panicked' = TRUE
       /\ UNCHANGED <<enc, next_free, last, emitted, first, n_encs, added, n_returned, fl>>
  ELSE /\ SetEnc(r.e)
       /\ next_free' = r.nf
       /\ last' = [op |-> op, min |-> lo, max |-> hi, res |-> "Ok", cnf |-> r.cnf,
                   minted |-> r.nf - next_free]
       /\ emitted' = emitted \cup SeqToSet(r.cnf)
       /\ n_returned' = n_returned + Len(r.cnf)
       /\ first' = IF first.op = "none"
                   THEN [op |-> op, min |-> lo, max |-> hi, buf |-> lit_buffer,
                         cnf |-> r.cnf, added |-> FALSE]
                   ELSE first
       /\ n_encs' = n_encs + 1
       /\ UNCHANGED <<panicked, added, fl>>

Encode(op, change) ==
  /\ ~panicked
  /\ n_encs < MaxEncodes
  /\ \E lo \in Limits, hi \in Limits :
       \/ Invalid(op, lo, hi)
       \/ /\ lo <= hi
          /\ \E new_lits \in NewLitsOrders(inverted, lit_buffer, ExtendCap(Self, lo, hi)) :
               \E r \in {IF inverted
                         THEN EncodeLbBody(Self, change, lo, hi, new_lits, next_free)
                         ELSE EncodeUbBody(Self, change, lo, hi, new_lits, next_free)} :
                 Encoded(op, lo, hi, r)

EncodeUb == ~inverted /\ Encode("encode_ub", FALSE)
EncodeUbChange == ~inverted /\ Encode("encode_ub_change", TRUE)
EncodeLb == inverted /\ Encode("encode_lb", FALSE)
EncodeLbChange == inverted /\ Encode("encode_lb_change", TRUE)

Next ==
  \/ Add
  \/ EncodeUb
  \/ EncodeUbChange
  \/ EncodeLb
  \/ EncodeLbChange

Spec == Init /\ [][Next]_vars

\* The upper bounding encoder alone
InitUb == Init /\ ~inverted
NextUb == Add \/ EncodeUb \/ EncodeUbChange
SpecUb == InitUb /\ [][NextUb]_vars

\* Both encoders as new() makes them, without reserving
InitPlain == Init /\ ~reserve_vars
SpecPlain == InitPlain /\ [][Next]_vars

\* The lower-bounding encoder
InitLb == Init /\ inverted
NextLb == Add \/ EncodeLb \/ EncodeLbChange
SpecLb == InitLb /\ [][NextLb]_vars

\* The upper-bounding encoder with inputs of weight zero among the others
InitZero == InitUb /\ ~reserve_vars
NextZero == Add \/ AddZero \/ EncodeUb \/ EncodeUbChange
SpecZero == InitZero /\ [][NextZero]_vars

\* The same for the encoder new_reserving() makes
InitZeroReserving == InitUb /\ reserve_vars
SpecZeroReserving == InitZeroReserving /\ [][NextZero]_vars

\* The upper-bounding encoder without reserving, with bounds up to MaxWideBound
MaxWideBound == 3
WideLimits == 0..MaxWideBound

EncodeWide(op, change) ==
  /\ ~panicked
  /\ n_encs < MaxEncodes
  /\ \E lo \in WideLimits, hi \in WideLimits :
       \/ Invalid(op, lo, hi)
       \/ /\ lo <= hi
          /\ \E new_lits \in NewLitsOrders(FALSE, lit_buffer, ExtendCap(Self, lo, hi)) :
               \E r \in {EncodeUbBody(Self, change, lo, hi, new_lits, next_free)} :
                 Encoded(op, lo, hi, r)

EncodeUbWide == ~inverted /\ EncodeWide("encode_ub", FALSE)
EncodeUbChangeWide == ~inverted /\ EncodeWide("encode_ub_change", TRUE)
NextWide == Add \/ EncodeUbWide \/ EncodeUbChangeWide
SpecWide == InitZero /\ [][NextWide]_vars

\* The upper-bounding encoder under add and encode_ub_change alone
NextChange == Add \/ EncodeUbChange
SpecChange == InitUb /\ [][NextChange]_vars

(***************************************************************************)
(* Satisfiability of what the encoder hands to the solver                  *)
(*                                                                         *)
(* Every emitted clause is an implication from input literals and output   *)
(* literals to one positive output literal, and every assumption on an     *)
(* output is negative.  An assignment of the inputs therefore extends to a *)
(* model of clauses and assumptions exactly if the assumptions hold in the *)
(* least model, the outputs the clauses force.                             *)
(***************************************************************************)
Abs(x) == IF x < 0 THEN 0 - x ELSE x
IsInput(x) == Abs(x) <= NumLits

\* Truth of the literal x when the inputs of A are true and the outputs of D
LitTrue(A, D, x) ==
  IF IsInput(x) THEN (IF x > 0 THEN x \in A ELSE Neg(x) \notin A)
  ELSE (IF x > 0 THEN x \in D ELSE Neg(x) \notin D)

ClauseHead(c) == c[Len(c)]
BodyHolds(A, D, c) == \A i \in 1..(Len(c) - 1) : LitTrue(A, D, Neg(c[i]))

RECURSIVE Forced(_, _, _)
Forced(A, D, clauses) ==
  Bind(D \cup {ClauseHead(c) : c \in {d \in clauses : BodyHolds(A, D, d)}}, LAMBDA D2 :
    IF D2 = D THEN D ELSE Forced(A, D2, clauses))

\* The outputs the clauses force under the inputs A
LeastModel(A, clauses) == Forced(A, {}, clauses)

\* The inputs A extend to a model of the clauses and the assumptions
Extends(A, clauses, assumps) ==
  Bind(LeastModel(A, clauses), LAMBDA D : \A x \in assumps : LitTrue(A, D, x))

\* The weight added for the literal l, buffered or in the tree
AddedWeight(l) ==
  (IF l \in DOMAIN lit_buffer THEN lit_buffer[l] ELSE 0)
    + (IF l \in DOMAIN in_lits THEN in_lits[l] ELSE 0)

\* The weighted sum of the inputs under the assignment A
WeightedSum(A) == SumOver([l \in Lits |-> AddedWeight(l)], A)

UbEncoded == ~inverted /\ last.op \in {"encode_ub", "encode_ub_change"} /\ last.res = "Ok"

(***************************************************************************)
(* C1: enforcement soundness.  After a successful encode_ub(min, max) or   *)
(* encode_ub_change(min, max), for every k from min to max, an assignment  *)
(* of the inputs extends to a model of all emitted clauses and of the      *)
(* assumptions of enforce_ub(k) if and only if its weighted sum is at most *)
(* k.                                                                      *)
(***************************************************************************)
EnforcementSoundness ==
  UbEncoded =>
    \A k \in last.min..last.max :
      \E r \in {EnforceUbOf(Self, k)} :
        /\ r.res = "Ok"
        /\ \A A \in SUBSET Lits : Extends(A, emitted, r.assumps) <=> WeightedSum(A) <= k

(***************************************************************************)
(* Comparing the clauses of two encoders                                   *)
(***************************************************************************)
\* The output literals of the tree under node with the place of each: the
\* position p of its node (1 the root, 2p and 2p + 1 the children) and its key
RECURSIVE OutNames(_, _)
OutNames(node, p) ==
  IF node.kind # "internal" THEN {}
  ELSE {<<node.out_lits[k], p, k>> : k \in DOMAIN node.out_lits}
         \cup OutNames(node.left, 2 * p) \cup OutNames(node.right, 2 * p + 1)

\* The literal x with an output named by its place in the tree
Placed(names, x) ==
  IF IsInput(x) THEN <<x, 0, 0>>
  ELSE Bind(CHOOSE t \in names : t[1] = Abs(x), LAMBDA t :
         <<IF x > 0 THEN 1 ELSE 0 - 1, t[2], t[3]>>)

\* The clauses with every output named by its place in the tree under node
PlacedClauses(node, clauses) ==
  Bind(OutNames(node, 1), LAMBDA names :
    {[i \in 1..Len(c) |-> Placed(names, c[i])] : c \in clauses})

\* encode_ub(lo, hi) on a new encoder holding the inputs buf, the hash map
\* yielding them in the order of new_lits
FreshEncodeUb(buf, lo, hi, new_lits) ==
  EncodeUbBody(AddLits(NewEncoder(FALSE, reserve_vars), buf), FALSE, lo, hi, new_lits, NumLits)

\* The first call was encode_ub(lo, hi) and the one after it, with no add in
\* between, encode_ub_change(lo2, hi2)
EncodeThenChange ==
  /\ ~inverted /\ n_encs = 2 /\ first.op = "encode_ub" /\ ~first.added
  /\ last.op = "encode_ub_change" /\ last.res = "Ok"

\* The first call admitted every input
AdmittedAll == \A l \in DOMAIN first.buf : first.buf[l] <= first.max

\* The single calls encode_ub(min(lo, lo2), max(hi, hi2)) on a new encoder with
\* the same inputs, one for every order the hash map can yield them in
SingleCalls ==
  {FreshEncodeUb(first.buf, Min(first.min, last.min), Max(first.max, last.max), o) :
     o \in NewLitsOrders(FALSE, first.buf, Max(first.max, last.max))}

(***************************************************************************)
(* C2: incremental equivalence.  encode_ub(lo, hi) followed by             *)
(* encode_ub_change(lo2, hi2) returns, over the two calls, the same set of *)
(* clauses as a single encode_ub(min(lo, lo2), max(hi, hi2)) on a new      *)
(* encoder with the same inputs, also where the first call admitted only   *)
(* part of the inputs.  The clauses are compared with every output literal *)
(* named by its node and key, so that the numbering of the variables does  *)
(* not count, and the single call may take any order of the hash map.      *)
(***************************************************************************)
IncrementalEquivalence ==
  EncodeThenChange =>
    \E r \in SingleCalls :
      ~r.panic /\ PlacedClauses(r.e.root, SeqToSet(r.cnf)) = PlacedClauses(root, emitted)

(***************************************************************************)
(* C3: no re-emission.  Over add and encode_ub_change calls alone, no      *)
(* clause an encode_ub_change call returns equals a clause an earlier call *)
(* returned.                                                               *)
(***************************************************************************)
NoReEmission ==
  [][(n_encs' = n_encs + 1 /\ last'.op = "encode_ub_change") =>
       SeqToSet(last'.cnf) \cap emitted = {}]_vars

\* A second encode_ub_change that returned clauses after a first that did
NoReEmissionWitness ==
  /\ n_encs = 2 /\ first.op = "encode_ub_change" /\ last.op = "encode_ub_change"
  /\ first.cnf # <<>> /\ last.cnf # <<>> /\ ~first.added

(***************************************************************************)
(* C4: idempotence.  encode_ub_change(a, b) right after an encode call     *)
(* whose limits cover [a, b], no input added in between, returns no clause *)
(* and mints no variable.                                                  *)
(***************************************************************************)
Idempotence ==
  [][(/\ UbEncoded
      /\ n_encs' = n_encs + 1 /\ last'.op = "encode_ub_change"
      /\ last.min <= last'.min /\ last'.max <= last.max)
       => (last'.cnf = <<>> /\ next_free' = next_free)]_vars

\* An encode_ub_change within the limits of the encode call before it
IdempotenceWitness ==
  /\ UbEncoded /\ n_encs = 2 /\ last.op = "encode_ub_change" /\ last.cnf = <<>>
  /\ first.cnf # <<>> /\ ~first.added
  /\ first.min <= last.min /\ last.max <= first.max /\ first.min < first.max

\* A cnf as the set of its clauses, each the set of its literals
ClauseSets(cnf) == {SeqToSet(cnf[i]) : i \in 1..Len(cnf)}

\* What a run can observe of an encode call: clauses, variables, state
Observed(r) == [cnf |-> ClauseSets(r.cnf), nf |-> r.nf, panic |-> r.panic,
                n_vars |-> r.e.n_vars, n_clauses |-> r.e.n_clauses]

(***************************************************************************)
(* C5: determinism.  An encode call returns the same clauses and mints the *)
(* same variables whatever order the hash map of the input buffer is       *)
(* iterated in, equal weights included.                                    *)
(***************************************************************************)
Determinism ==
  (~inverted /\ ~panicked) =>
    \A change \in BOOLEAN : \A lo, hi \in Limits :
      lo <= hi =>
        \A o1, o2 \in NewLitsOrders(FALSE, lit_buffer, hi) :
          Observed(EncodeUbBody(Self, change, lo, hi, o1, next_free))
            = Observed(EncodeUbBody(Self, change, lo, hi, o2, next_free))

\* The output assignment T satisfies the clauses under the inputs A
Satisfies(A, T, clauses) == \A c \in clauses : \E i \in 1..Len(c) : LitTrue(A, T, c[i])

\* The variables of the output literals of the tree
OutVars == {t[1] : t \in OutNames(root, 1)}

\* Some set of inputs true under A has summed weight at least v
SomeSumReaches(A, v) ==
  \E S \in SUBSET A : SumOver([l \in Lits |-> AddedWeight(l)], S) >= v

(***************************************************************************)
(* C6: monotone threshold semantics.  In every assignment satisfying all   *)
(* emitted clauses, the root output literal out_lits[v] is true if and     *)
(* only if some set of true input literals has summed weight at least v.   *)
(***************************************************************************)
ThresholdSemantics ==
  (~inverted /\ root.kind = "internal") =>
    \A A \in SUBSET Lits : \A T \in SUBSET OutVars :
      Satisfies(A, T, emitted) =>
        \A v \in DOMAIN root.out_lits :
          root.out_lits[v] \in T <=> SomeSumReaches(A, v)

(***************************************************************************)
(* C6, amended: the emitted clauses force the root output literal          *)
(* out_lits[v] to be true, that is it is true in every assignment that     *)
(* satisfies them and agrees with given inputs, only if some set of true   *)
(* input literals has summed weight at least v.                            *)
(***************************************************************************)
ForcedOnlyByReachedSum ==
  (~inverted /\ root.kind = "internal") =>
    \A A \in SUBSET Lits :
      \E D \in {LeastModel(A, emitted)} :
        \A v \in DOMAIN root.out_lits :
          root.out_lits[v] \in D => SomeSumReaches(A, v)

\* Some inputs force a root output and leave another root output free
ForcedOnlyByReachedSumWitness ==
  /\ ~inverted /\ root.kind = "internal" /\ root.depth > 2
  /\ \E A \in SUBSET Lits :
       \E D \in {LeastModel(A, emitted)} :
         /\ \E v \in DOMAIN root.out_lits : root.out_lits[v] \in D
         /\ \E v \in DOMAIN root.out_lits : root.out_lits[v] \notin D

EncodeOps == {"encode_ub", "encode_ub_change", "encode_lb", "encode_lb_change"}

(***************************************************************************)
(* C7: an encode call with min > max, and no other, returns InvalidLimits; *)
(* it mints no variable, returns no clause and leaves the input buffer,    *)
(* the internalized inputs, the tree, max_leaf_weight and the statistics   *)
(* as they were.                                                           *)
(***************************************************************************)
InvalidLimitsChangeNothing ==
  [][/\ (last'.res = "InvalidLimits") =>
          /\ last'.op \in EncodeOps /\ last'.cnf = <<>> /\ last'.minted = 0
          /\ UNCHANGED <<in_lits, lit_buffer, root, max_leaf_weight, total_weight,
                         n_vars, n_clauses, next_free, emitted>>
     /\ (n_encs' = n_encs + 1) =>
          (last'.op \in EncodeOps /\ last'.res = "Ok" /\ last'.min <= last'.max)]_vars

\* InvalidLimits returned by an encoder that holds a tree and buffered inputs
InvalidLimitsWitness ==
  /\ last.res = "InvalidLimits" /\ last.op = "encode_lb_change"
  /\ root.kind = "internal" /\ DOMAIN lit_buffer # {} /\ n_vars > 0

\* The bounds enforce_ub is asked for
EnforceBounds == 0..(MaxEntries * MaxWeight)

\* The condition of C8 for NotEncoded
NotEncodedCondition(ub) ==
  \/ \E l \in DOMAIN lit_buffer : lit_buffer[l] <= ub
  \/ /\ root.kind = "internal" /\ root.max_val > ub
     /\ \/ root.min_max_enc = None
        \/ root.min_max_enc[2] < Min(ub + max_leaf_weight, root.max_val)
        \/ root.min_max_enc[1] > ub + 1

(***************************************************************************)
(* C8: enforce_ub(ub) returns NotEncoded exactly when some buffered        *)
(* literal has weight at most ub, or the root is an internal node with     *)
(* max_val > ub whose window is absent or is Some(a, b) with               *)
(* b < min(ub + max_leaf_weight, max_val) or a > ub + 1; otherwise Ok.     *)
(***************************************************************************)
NotEncodedExactly ==
  (~inverted /\ ~panicked) =>
    \A ub \in EnforceBounds :
      \E r \in {EnforceUbOf(Self, ub)} :
        IF NotEncodedCondition(ub) THEN r.res = "NotEncoded" ELSE r.res = "Ok"

\* NotEncoded for the window alone, and Ok for another bound, in one state
NotEncodedExactlyWitness ==
  /\ ~inverted /\ root.kind = "internal" /\ root.min_max_enc # None
  /\ \E ub \in EnforceBounds :
       /\ EnforceUbOf(Self, ub).res = "NotEncoded"
       /\ \A l \in DOMAIN lit_buffer : lit_buffer[l] > ub
  /\ \E ub \in EnforceBounds : ub < root.max_val /\ EnforceUbOf(Self, ub).res = "Ok"

\* The assumptions of C9 for the bound ub
ExpectedAssumps(ub) ==
  {Neg(l) : l \in {x \in Lits : \/ x \in DOMAIN lit_buffer /\ lit_buffer[x] > ub
                                \/ x \in DOMAIN in_lits /\ in_lits[x] > ub}}
    \cup (IF root.kind = "internal" /\ root.max_val > ub
          THEN {Neg(root.out_lits[v]) :
                  v \in {k \in DOMAIN root.out_lits : ub < k /\ k <= ub + max_leaf_weight}}
          ELSE {})

(***************************************************************************)
(* C9: when enforce_ub(ub) returns Ok it returns exactly the negation of   *)
(* every input literal whose buffered or internalized weight exceeds ub    *)
(* and the negation of the root output literal of every key v with         *)
(* ub < v <= ub + max_leaf_weight, none of these where the root is absent, *)
(* a leaf or has max_val <= ub.                                            *)
(***************************************************************************)
AssumpsExactly ==
  (~inverted /\ ~panicked) =>
    \A ub \in EnforceBounds :
      \E r \in {EnforceUbOf(Self, ub)} :
        r.res = "Ok" => r.assumps = ExpectedAssumps(ub)

\* Ok with the negation of an input and of a root output among the assumptions
AssumpsExactlyWitness ==
  /\ ~inverted /\ root.kind = "internal"
  /\ \E ub \in EnforceBounds :
       \E r \in {EnforceUbOf(Self, ub)} :
         /\ r.res = "Ok"
         /\ \E x \in r.assumps : IsInput(x)
         /\ \E x \in r.assumps : ~IsInput(x)

\* The node that the tree new holds in the place of the root of the tree old:
\* extend_tree makes the old root the left child of the new one
SameNode(old, new) ==
  IF old.kind # "none" /\ CountLeaves(new) > CountLeaves(old) THEN new.left ELSE new

\* The window w2 is the window w1 or wider
Widened(w1, w2) ==
  w1 # None => (w2 # None /\ w2[1] <= w1[1] /\ w2[2] >= w1[2])

\* Every internal node under old has in new kept or widened its window
RECURSIVE WindowsWidened(_, _)
WindowsWidened(old, new) ==
  old.kind = "internal" =>
    /\ new.kind = "internal"
    /\ Widened(old.min_max_enc, new.min_max_enc)
    /\ WindowsWidened(old.left, new.left)
    /\ WindowsWidened(old.right, new.right)

\* Every internal node under old has in new kept or raised depth and n_clauses
RECURSIVE CountsGrown(_, _)
CountsGrown(old, new) ==
  old.kind = "internal" =>
    /\ new.kind = "internal"
    /\ new.depth >= old.depth /\ new.n_clauses >= old.n_clauses
    /\ CountsGrown(old.left, new.left)
    /\ CountsGrown(old.right, new.right)

(***************************************************************************)
(* C10: across add, encode_ub and encode_ub_change calls the window        *)
(* min_max_enc of every internal node only widens and never returns to     *)
(* None, and its depth and n_clauses never decrease.                       *)
(***************************************************************************)
NodesMonotone ==
  [][/\ WindowsWidened(root, SameNode(root, root'))
     /\ CountsGrown(root, SameNode(root, root'))]_vars

(***************************************************************************)
(* C10, amended: across add and encode_ub_change calls the window of every *)
(* internal node only widens and never returns to None; across these and   *)
(* encode_ub calls, which record the window of the call alone, its depth   *)
(* and n_clauses never decrease.                                           *)
(***************************************************************************)
NodesMonotoneUnderChange ==
  [][/\ (~(n_encs' = n_encs + 1 /\ last'.op = "encode_ub")) =>
          WindowsWidened(root, SameNode(root, root'))
     /\ CountsGrown(root, SameNode(root, root'))]_vars

\* An encode_ub_change that widened the windows of the nodes of the call before
NodesMonotoneWitness ==
  /\ ~inverted /\ n_encs = 2 /\ last.op = "encode_ub_change" /\ ~first.added
  /\ first.cnf # <<>> /\ last.cnf # <<>>
  /\ CountLeaves(root) = Cardinality(DOMAIN first.buf) /\ AdmittedAll
  /\ root.kind = "internal" /\ root.depth > 2

\* The total weight W of all inputs added
AddedTotal == WeightedSum(Lits)

LbOps == {"encode_lb", "encode_lb_change"}

(***************************************************************************)
(* C11: encode_lb(min_lb, max_lb) and encode_lb_change(min_lb, max_lb)     *)
(* fail with Unsat when the lower bound asked for exceeds the total weight *)
(* of all added inputs: no such call succeeds.  Stated for encoders that   *)
(* hold inputs.                                                            *)
(***************************************************************************)
UnsatAtEncode ==
  [][(n_encs' = n_encs + 1 /\ last'.op \in LbOps /\ AddedTotal > 0)
       => last'.min <= AddedTotal]_vars

(***************************************************************************)
(* C12: enforce_lb(lb) returns Unsat only when lb exceeds the total weight *)
(* W of all added inputs; for every lb <= W, lb = W included, it does not. *)
(* Stated for encoders that hold inputs.                                   *)
(***************************************************************************)
UnsatOnlyAboveTotal ==
  (inverted /\ ~panicked /\ AddedTotal > 0) =>
    \A lb \in EnforceBounds :
      EnforceLbOf(Self, lb).res = "Unsat" => lb > AddedTotal

\* The inputs buf with every literal negated
NegMap(buf) == [x \in {Neg(l) : l \in DOMAIN buf} |-> buf[Neg(x)]]

\* An encoder that holds inputs and has encoded nothing yet
HoldsInputsOnly == ~panicked /\ root = NoNode /\ DOMAIN lit_buffer # {} /\ n_encs = 0

\* encode_lb(k, k) on this inverted encoder, then enforce_lb(k)
LbRun(k, new_lits) ==
  Bind(EncodeLbBody(Self, FALSE, k, k, new_lits, next_free), LAMBDA r :
    [cnf |-> SeqToSet(r.cnf), panic |-> r.panic, enf |-> EnforceLbOf(r.e, k)])

\* encode_ub(ub, ub) on a GeneralizedTotalizer holding the negated inputs, then
\* enforce_ub(ub)
UbRunOfNegated(ub, new_lits) ==
  Bind(EncodeUbBody(AddLits(NewEncoder(FALSE, reserve_vars), NegMap(lit_buffer)),
                    FALSE, ub, ub, new_lits, next_free), LAMBDA r :
    [cnf |-> SeqToSet(r.cnf), panic |-> r.panic, enf |-> EnforceUbOf(r.e, ub)])

\* The input assignments that the clauses and assumptions of the run admit
Admitted(run) == {A \in SUBSET Lits : Extends(A, run.cnf, run.enf.assumps)}

\* Two runs with the same outcome
SameOutcome(r1, r2) ==
  /\ r1.panic = r2.panic
  /\ r1.enf.res = r2.enf.res
  /\ (r1.enf.res = "Ok" /\ ~r1.panic) => Admitted(r1) = Admitted(r2)

(***************************************************************************)
(* C13: inverted duality.  For inputs of total weight W and every k < W,   *)
(* the inverted encoder after encode_lb(k, k) and a GeneralizedTotalizer   *)
(* holding the negated literals after encode_ub(W - k, W - k) have the     *)
(* same outcome: enforce_lb(k) and enforce_ub(W - k) both succeed or both  *)
(* fail, and where they succeed the clauses and assumptions of the one     *)
(* admit the same input assignments as those of the other, whatever order  *)
(* either hash map is iterated in.                                         *)
(***************************************************************************)
InvertedDuality ==
  (inverted /\ HoldsInputsOnly) =>
    \A k \in 0..(AddedTotal - 1) :
      \A o1 \in NewLitsOrders(TRUE, lit_buffer, AddedTotal - k) :
        \A o2 \in NewLitsOrders(FALSE, NegMap(lit_buffer), AddedTotal - k) :
          SameOutcome(LbRun(k, o1), UbRunOfNegated(AddedTotal - k, o2))

(***************************************************************************)
(* C14: weight conservation.  After any sequence of add and encode calls,  *)
(* for every literal the buffered weight plus the internalized weight is   *)
(* the sum of all weights ever added for it, and total_weight is the sum   *)
(* of all buffered and internalized weights.                               *)
(***************************************************************************)
WeightConservation ==
  /\ \A l \in Lits : AddedWeight(l) = added[l]
  /\ total_weight = SumOver(lit_buffer, DOMAIN lit_buffer) + SumOver(in_lits, DOMAIN in_lits)
  /\ (DOMAIN lit_buffer \cup DOMAIN in_lits) \subseteq Lits

\* A literal added again after a first weight of it went into the tree, and
\* the second weight gone into the tree as well
WeightConservationWitness ==
  /\ n_encs = 2 /\ DOMAIN lit_buffer # {}
  /\ CountLeaves(root) > Cardinality(DOMAIN in_lits)

(***************************************************************************)
(* C16: statistics.  After any sequence of successful encode calls,        *)
(* n_clauses() is the number of clauses in all the CNFs the calls          *)
(* returned and n_vars() the number of variables they minted from the      *)
(* variable manager.                                                       *)
(***************************************************************************)
Statistics ==
  /\ n_clauses = n_returned
  /\ n_vars = next_free - NumLits

\* Two encode calls that both returned clauses and minted variables
StatisticsWitness ==
  /\ n_encs = 2 /\ first.cnf # <<>> /\ last.op \in EncodeOps /\ last.cnf # <<>>
  /\ last.minted > 0 /\ n_vars > last.minted /\ n_clauses > Len(last.cnf)

\* The depth get_depth() returns for the encoder e
DepthOf(e) == IF e.root = NoNode THEN 0 ELSE GetDepth(e.root)

\* What the caller sees of an encode call on the encoder e
SeenOfEncode(e, change, lo, hi, new_lits) ==
  Bind(EncodeUbBody(e, change, lo, hi, new_lits, next_free), LAMBDA r :
    [cnf |-> ClauseSets(r.cnf), depth |-> DepthOf(r.e), n_vars |-> r.e.n_vars,
     panic |-> r.panic])

\* Every encode call on the encoder e2 is seen as some encode call on e1 is
SameEncodes(e1, e2) ==
  \A change \in BOOLEAN : \A lo, hi \in Limits :
    lo <= hi =>
      \A o2 \in NewLitsOrders(FALSE, e2.lit_buffer, hi) :
        \E o1 \in NewLitsOrders(FALSE, e1.lit_buffer, hi) :
          SeenOfEncode(e2, change, lo, hi, o2) = SeenOfEncode(e1, change, lo, hi, o1)

(***************************************************************************)
(* C15: a weight of zero is absence.  Adding a literal with weight 0       *)
(* changes nothing observable: every enforce_ub returns the same result,   *)
(* and the next encode_ub or encode_ub_change returns the same clauses and *)
(* leaves the same get_depth and n_vars, as without that add.              *)
(***************************************************************************)
ZeroWeightIsAbsence ==
  [][(last'.op = "add_zero" /\ lit_buffer' # lit_buffer) =>
       /\ \A ub \in EnforceBounds : EnforceUbOf(Self', ub) = EnforceUbOf(Self, ub)
       /\ SameEncodes(Self, Self')]_vars

\* The greatest factor the weights and the bounds are multiplied with
MaxScale == 3

\* The encoder after new and add of the buffered weights multiplied with c
ScaledEncoder(c) ==
  AddLits(NewEncoder(FALSE, reserve_vars), [l \in DOMAIN lit_buffer |-> c * lit_buffer[l]])

\* The number of clauses encode_ub(lo, hi) returns on the encoder e, the
\* buffer iterated in the order iter
ClausesOfEncodeUb(e, lo, hi, iter) ==
  Len(EncodeUbBody(e, FALSE, lo, hi, NewLits(FALSE, e.lit_buffer, hi, iter), next_free).cnf)

(***************************************************************************)
(* C17: scaling invariance.  encode_ub(c * lo, c * hi) on an encoder       *)
(* holding the weights c * w returns as many clauses as encode_ub(lo, hi)  *)
(* on an encoder holding the weights w, for every factor c >= 1.           *)
(***************************************************************************)
ScalingInvariance ==
  (~inverted /\ HoldsInputsOnly) =>
    \A c \in 1..MaxScale : \A lo, hi \in Limits :
      lo <= hi =>
        \A iter \in Perms(DOMAIN lit_buffer) :
          ClausesOfEncodeUb(ScaledEncoder(c), c * lo, c * hi, iter)
            = ClausesOfEncodeUb(Self, lo, hi, iter)

\* Three inputs whose scaled encoding over a narrowed window has clauses
ScalingInvarianceWitness ==
  /\ ~inverted /\ HoldsInputsOnly
  /\ Cardinality(DOMAIN lit_buffer) = NumLits
  /\ \E iter \in Perms(DOMAIN lit_buffer) :
       /\ ClausesOfEncodeUb(ScaledEncoder(MaxScale), MaxScale * MaxBound,
                            MaxScale * MaxBound, iter) > 0
       /\ ClausesOfEncodeUb(ScaledEncoder(MaxScale), 0, MaxScale * MaxBound, iter)
            > ClausesOfEncodeUb(ScaledEncoder(MaxScale), MaxScale * MaxBound,
                                MaxScale * MaxBound, iter)

\* The nodes of the tree below and including n
RECURSIVE Subtrees(_)
Subtrees(n) ==
  IF n.kind = "none" THEN {}
  ELSE IF n.kind = "leaf" THEN {n}
  ELSE {n} \cup Subtrees(n.left) \cup Subtrees(n.right)

InternalNodes(n) == {x \in Subtrees(n) : x.kind = "internal"}

\* The keys the kernel owes for the child maps L and R over [lo, hi]
KernelKeys(L, R, lo, hi) ==
  {k \in DOMAIN L \cup DOMAIN R \cup {a + b : a \in DOMAIN L, b \in DOMAIN R} :
     lo <= k /\ k <= hi}

\* The clauses the kernel owes for the child maps L and R and the outputs out
KernelClauses(L, R, out, lo, hi) ==
  [bin_left |-> {LitImplLit(L[a], out[a]) : a \in {k \in DOMAIN L : lo <= k /\ k <= hi}},
   bin_right |-> {LitImplLit(R[b], out[b]) : b \in {k \in DOMAIN R : lo <= k /\ k <= hi}},
   sums |-> {CubeImplLit(L[p[1]], R[p[2]], out[p[1] + p[2]]) :
               p \in {q \in (DOMAIN L) \X (DOMAIN R) : lo <= q[1] + q[2] /\ q[1] + q[2] <= hi}},
   count |-> Cardinality({k \in DOMAIN L : lo <= k /\ k <= hi})
               + Cardinality({k \in DOMAIN R : lo <= k /\ k <= hi})
               + Cardinality({q \in (DOMAIN L) \X (DOMAIN R) :
                                lo <= q[1] + q[2] /\ q[1] + q[2] <= hi})]

\* encode_from_till(lo, hi) on the node n with its out_lits emptied
KernelRun(n, lo, hi) == EncodeFromTill([n EXCEPT !.out_lits = EmptyMap], lo, hi, next_free)

\* The run r of the kernel on n over [lo, hi] left the keys and returned the
\* clauses owed
KernelOwed(n, lo, hi, r) ==
  /\ ~r.panic
  /\ DOMAIN r.node.out_lits = KernelKeys(ChildLitMap(n.left), ChildLitMap(n.right), lo, hi)
  /\ \E c \in {KernelClauses(ChildLitMap(n.left), ChildLitMap(n.right),
                             r.node.out_lits, lo, hi)} :
       /\ Len(r.cnf) = c.count
       /\ SeqToSet(r.cnf) = c.bin_left \cup c.bin_right \cup c.sums

RECURSIVE LeafSums(_)
LeafSums(n) ==
  IF n.kind = "leaf" THEN {n.weight}
  ELSE Bind(<<LeafSums(n.left), LeafSums(n.right)>>, LAMBDA s :
         s[1] \cup s[2] \cup {a + b : a \in s[1], b \in s[2]})

\* The node n has an output for the sum a of its leaves
HasOutput(n, a) == a \in DOMAIN ChildLitMap(n)

\* The children of n have outputs for the operands of every sum in n's window
OperandsEncoded(n) ==
  \A a \in LeafSums(n.left) : \A b \in LeafSums(n.right) :
    (a >= 1 /\ b >= 1 /\ n.min_max_enc[1] <= a + b /\ a + b <= n.min_max_enc[2])
      => (HasOutput(n.left, a) /\ HasOutput(n.right, b))

(***************************************************************************)
(* C19: the narrowing of the child windows is sufficient.  After           *)
(* encode_rec or encode_change_rec on an internal node with the window     *)
(* [min_enc, max_enc], for every choice of true leaves on the left with    *)
(* the sum a >= 1 and on the right with the sum b >= 1 such that a + b     *)
(* lies in the window, the left child has an output for a and the right    *)
(* child has an output for b, a sibling leaf of a weight above 1 included. *)
(***************************************************************************)
ChildWindowsSuffice ==
  ~panicked =>
    \A n \in InternalNodes(root) : n.min_max_enc # None => OperandsEncoded(n)

\* The node n has an output for every sum of two child keys in its window,
\* and the clause of the sum has been returned by some call
SumsOfWindowEncoded(n) ==
  Bind(<<ChildLitMap(n.left), ChildLitMap(n.right)>>, LAMBDA c :
    \A x \in DOMAIN c[1] : \A y \in DOMAIN c[2] :
      (n.min_max_enc[1] <= x + y /\ x + y <= Min(n.min_max_enc[2], n.max_val))
        => /\ x + y \in DOMAIN n.out_lits
           /\ CubeImplLit(c[1][x], c[2][y], n.out_lits[x + y]) \in emitted)

(***************************************************************************)
(* C20: window invariant.  In every state reachable by add, encode_ub and  *)
(* encode_ub_change, each internal node with min_max_enc = Some(a, b) has  *)
(* an out_lits entry for every sum x + y of a key x of its left child's    *)
(* output map and a key y of its right child's with                        *)
(* a <= x + y <= min(b, max_val), and the clause (x-literal and y-literal  *)
(* imply out_lits[x + y]) has been emitted.                                *)
(***************************************************************************)
WindowInvariant ==
  ~panicked =>
    \A n \in InternalNodes(root) : n.min_max_enc # None => SumsOfWindowEncoded(n)

\* encode_ub(0, k) returned and left every input in a tree with an internal root
AllAdmittedFromZero ==
  /\ ~inverted /\ ~panicked
  /\ last.op = "encode_ub" /\ last.res = "Ok" /\ last.min = 0
  /\ DOMAIN lit_buffer = {}
  /\ root.kind = "internal"

(***************************************************************************)
(* C21: exact-sum propagation.  After encode_ub(0, k) has admitted all     *)
(* inputs into a tree with an internal root, in every assignment that      *)
(* satisfies all emitted clauses, for every set of true input literals     *)
(* whose weights sum to s with 1 <= s <= min(k + max_leaf_weight,          *)
(* max_val), the root has an output literal with the key s and that        *)
(* literal is true.                                                        *)
(***************************************************************************)
ExactSumPropagation ==
  AllAdmittedFromZero =>
    \A A \in SUBSET Lits :
      \E D \in {LeastModel(A, emitted)} :
        \A S \in SUBSET A :
          \E sum \in {WeightedSum(S)} :
            (1 <= sum /\ sum <= Min(last.max + max_leaf_weight, root.max_val))
              => (sum \in DOMAIN root.out_lits /\ root.out_lits[sum] \in D)

\* Three leaves encoded by a second call, the window ending below max_val
ExactSumPropagationWitness ==
  /\ AllAdmittedFromZero
  /\ n_encs = 2
  /\ CountLeaves(root) = 3
  /\ last.max + max_leaf_weight < root.max_val
  /\ last.cnf # <<>>

\* The sum of the weights of the leaves of the subtree n
RECURSIVE LeafWeightSum(_)
LeafWeightSum(n) ==
  IF n.kind = "leaf" THEN n.weight
  ELSE LeafWeightSum(n.left) + LeafWeightSum(n.right)

(***************************************************************************)
(* C22: in every reachable state, reserving or not and for all             *)
(* non-negative input weights, every key of the out_lits of every internal *)
(* node is strictly positive and at most the node's max_val, and max_val   *)
(* is the sum of the weights of the leaves of the node's subtree.          *)
(***************************************************************************)
KeysWithinMaxVal ==
  \A n \in InternalNodes(root) :
    /\ \A k \in DOMAIN n.out_lits : 0 < k /\ k <= n.max_val
    /\ n.max_val = LeafWeightSum(n)

\* Every output literal of an internal node under old is the same in new
RECURSIVE OutLitsKept(_, _)
OutLitsKept(old, new) ==
  old.kind = "internal" =>
    /\ new.kind = "internal"
    /\ \A v \in DOMAIN old.out_lits :
         v \in DOMAIN new.out_lits /\ new.out_lits[v] = old.out_lits[v]
    /\ OutLitsKept(old.left, new.left)
    /\ OutLitsKept(old.right, new.right)

\* No two (node, value) pairs of the tree under node have the same variable
NoSharedVariable(node) ==
  \A t1, t2 \in OutNames(node, 1) : t1[1] = t2[1] => t1 = t2

(***************************************************************************)
(* C23: output-literal stability.  Once an internal node has an output     *)
(* literal for the value v, every later encode, encode_change, reservation *)
(* or tree extension leaves that node's literal for v unchanged, and two   *)
(* different (node, value) pairs never share a variable.                   *)
(***************************************************************************)
OutputStability ==
  [][/\ OutLitsKept(root, SameNode(root, root'))
     /\ NoSharedVariable(root')]_vars

\* A second call that emitted clauses on a tree whose old root, encoded by
\* the first call, became the left child of the new root
OutputStabilityWitness ==
  /\ ~inverted /\ ~panicked
  /\ n_encs = 2 /\ first.cnf # <<>> /\ first.added
  /\ last.op \in EncodeOps /\ last.cnf # <<>> /\ last.minted > 0
  /\ root.kind = "internal" /\ root.left.kind = "internal"
  /\ DOMAIN root.left.out_lits # {}
  /\ CountLeaves(root) = MaxEntries

\* The leaves of the tree under n, from left to right
RECURSIVE LeafSeq(_)
LeafSeq(n) ==
  IF n.kind = "none" THEN <<>>
  ELSE IF n.kind = "leaf" THEN <<n>>
  ELSE LeafSeq(n.left) \o LeafSeq(n.right)

\* The tree under n without what encoding changes: out_lits, counts and window
RECURSIVE Structure(_)
Structure(n) ==
  IF n.kind # "internal" THEN n
  ELSE [kind |-> "internal", max_val |-> n.max_val, depth |-> n.depth,
        left |-> Structure(n.left), right |-> Structure(n.right)]

\* The leaves of the tree under n are one for each entry of buf at most cap
LeavesOfAdmitted(n, buf, cap) ==
  Bind(LeafSeq(n), LAMBDA leaves :
    /\ Len(leaves) = Cardinality({l \in DOMAIN buf : buf[l] <= cap})
    /\ \A l \in DOMAIN buf :
         buf[l] <= cap => \E i \in 1..Len(leaves) : leaves[i] = NewLeaf(l, buf[l]))

\* The tree new is the tree old extended by the entries of buf at most cap
ExtendedBy(old, new, buf, cap) ==
  IF \A l \in DOMAIN buf : buf[l] > cap
  THEN Structure(new) = Structure(old) /\ OutLitsKept(old, new)
  ELSE IF old.kind = "none"
  THEN LeavesOfAdmitted(new, buf, cap)
  ELSE /\ new.kind = "internal"
       /\ Structure(new.left) = Structure(old)
       /\ OutLitsKept(old, new.left)
       /\ LeavesOfAdmitted(new.right, buf, cap)

(***************************************************************************)
(* C24: tree extension partitions the buffer by the cap.  After            *)
(* encode_ub(min, max) or encode_ub_change(min, max), the buffer holds     *)
(* exactly the entries buffered before with a weight > max, unchanged;     *)
(* every entry buffered before with a weight <= max has become exactly one *)
(* new leaf with that weight; and the old root, if there is one, is the    *)
(* left child of the new root, with its out_lits and the structure of its  *)
(* subtree preserved.                                                      *)
(***************************************************************************)
ExtensionPartitions ==
  [][(~inverted /\ n_encs' = n_encs + 1) =>
       /\ lit_buffer' = [l \in {x \in DOMAIN lit_buffer : lit_buffer[x] > last'.max}
                           |-> lit_buffer[l]]
       /\ ExtendedBy(root, root', lit_buffer, last'.max)]_vars

\* A second call that admitted one entry next to the old root, the one input
\* of the first call, and left another in the buffer
ExtensionPartitionsWitness ==
  /\ ~inverted /\ ~panicked
  /\ n_encs = 2 /\ last.op \in EncodeOps
  /\ Cardinality(DOMAIN first.buf) = 1
  /\ \A l \in DOMAIN first.buf : first.buf[l] <= first.max
  /\ root.kind = "internal"
  /\ \A l \in DOMAIN first.buf : root.left = NewLeaf(l, first.buf[l])
  /\ root.right.kind = "leaf"
  /\ \E l \in DOMAIN lit_buffer : lit_buffer[l] > last.max

\* The clauses the nodes of the tree under n count as theirs
RECURSIVE TreeClauses(_)
TreeClauses(n) ==
  IF n.kind # "internal" THEN 0
  ELSE n.n_clauses + TreeClauses(n.left) + TreeClauses(n.right)

\* The extension of an encode call with the cap hi mints every variable the
\* call mints, counts no clause, and mints nothing when it admits no input
ExtensionReservesAll(change, lo, hi, new_lits) ==
  Bind(<<ExtendTree(Self, hi, new_lits, next_free),
         EncodeUbBody(Self, change, lo, hi, new_lits, next_free)>>, LAMBDA xr :
    /\ ~xr[1].panic /\ ~xr[2].panic
    /\ xr[2].nf = xr[1].nf
    /\ xr[1].e.n_clauses = n_clauses
    /\ TreeClauses(xr[1].e.root) = TreeClauses(root)
    /\ (new_lits = <<>> => xr[2].nf = next_free))

(***************************************************************************)
(* C25: reserving mode.  In an encoder built with new_reserving every      *)
(* output variable is minted during tree extension, before any clause is   *)
(* emitted, so that after an encode call every internal node has an output *)
(* literal for every achievable child value and pairwise sum up to         *)
(* max_val, whatever the window requested; reservation itself produces no  *)
(* clause; and an encode call that admits no new input mints no variable.  *)
(***************************************************************************)
ReservingMode ==
  (reserve_vars /\ ~inverted /\ ~panicked) =>
    /\ \A n \in InternalNodes(root) : LeafSums(n) \subseteq DOMAIN n.out_lits
    /\ \A change \in BOOLEAN : \A lo, hi \in Limits :
         lo <= hi =>
           \A new_lits \in NewLitsOrders(FALSE, lit_buffer, hi) :
             ExtensionReservesAll(change, lo, hi, new_lits)

\* A reserving encoder whose second call, over the narrowest window, extended
\* the tree to three leaves, the root holding keys below the window
ReservingModeWitness ==
  /\ reserve_vars /\ ~inverted /\ ~panicked
  /\ n_encs = 2 /\ first.added
  /\ last.op \in EncodeOps /\ last.min = MaxBound /\ last.minted > 0
  /\ CountLeaves(root) = MaxEntries
  /\ \E k \in DOMAIN root.out_lits : k <= last.min

\* The ends of the windows the kernel is called with, up to one above the
\* greatest max_val
KernelEnds == 0..(MaxEntries * MaxWeight + 1)

\* encode_from_till(lo, hi) on the node n returned no clause, minted no
\* variable and left n as it was
KernelNoOp(n, lo, hi) ==
  EncodeFromTill(n, lo, hi, next_free)
    = [node |-> n, cnf |-> <<>>, nf |-> next_free, panic |-> FALSE]

(***************************************************************************)
(* C26: degenerate windows are no-ops.  encode_from_till(lo, hi) with      *)
(* lo > hi, or with lo above the max_val of the node, returns zero         *)
(* clauses, mints no variable and leaves the node's out_lits unchanged.    *)
(***************************************************************************)
DegenerateWindows ==
  ~panicked =>
    \A n \in InternalNodes(root) : \A lo, hi \in KernelEnds :
      (lo > hi \/ lo > n.max_val) => KernelNoOp(n, lo, hi)

\* A tree of two internal nodes with outputs, a window recorded at the
\* root, whose max_val lies below the greatest end of a window
DegenerateWindowsWitness ==
  /\ ~panicked
  /\ root.kind = "internal" /\ DOMAIN root.out_lits # {} /\ root.min_max_enc # None
  /\ \E n \in InternalNodes(root) : n # root /\ DOMAIN n.out_lits # {}
  /\ root.max_val < MaxEntries * MaxWeight

\* encode_from_till(lo, hi) on the node n finds every literal it looks up and
\* mints no variable after reserve_vars_from_till(lo, hi) has returned
EmissionMintsNothing(n, lo, hi) ==
  Bind(<<ReserveVarsFromTill(n, lo, hi, next_free), EncodeFromTill(n, lo, hi, next_free)>>,
       LAMBDA re : ~re[2].panic /\ re[2].nf = re[1].nf
                     /\ AdderClauses(re[1].node, lo, hi).panic = FALSE)

(***************************************************************************)
(* C27: clause emission never needs an unreserved variable.  For any       *)
(* sequence of add, encode and encode_change calls, every output literal   *)
(* looked up while a clause is emitted is present in the node's out_lits   *)
(* (no unwrap of the lookup fails), clause emission itself mints no        *)
(* variable, and enforce_ub never finds internalized inputs while the root *)
(* is absent (its assertion never fails).                                  *)
(***************************************************************************)
EmissionNeedsNoVariable ==
  /\ ~panicked
  /\ root = NoNode => DOMAIN in_lits = {}
  /\ \A n \in InternalNodes(root) : \A lo, hi \in 1..(MaxBound + MaxWeight) :
       lo <= hi => EmissionMintsNothing(n, lo, hi)

\* Two calls that returned clauses, one of a sum among them, the second an
\* encode_ub_change
EmissionNeedsNoVariableWitness ==
  /\ n_encs = 2 /\ first.cnf # <<>>
  /\ last.op = "encode_ub_change" /\ last.cnf # <<>> /\ last.minted > 0
  /\ \E c \in SeqToSet(last.cnf) : Len(c) = 3

\* No internal node of the tree has a key below the lower end of its window
KeysFromWindowLow ==
  \A n \in InternalNodes(root) :
    n.min_max_enc # None => \A k \in DOMAIN n.out_lits : k >= n.min_max_enc[1]

(***************************************************************************)
(* C28: in every state reachable by add, encode_ub and encode_ub_change,   *)
(* reserving or not, an internal node whose recorded window is             *)
(* Some(lo, hi) has no out_lits key smaller than lo.                       *)
(***************************************************************************)
NoKeyBelowWindow == ~inverted => KeysFromWindowLow

(***************************************************************************)
(* C28, amended: in every state an encoder that does not reserve reaches   *)
(* by add and encode_ub_change, an internal node whose recorded window is  *)
(* Some(lo, hi) has no out_lits key smaller than lo.                       *)
(***************************************************************************)
NoKeyBelowWindowUnderChange == (~inverted /\ ~reserve_vars) => KeysFromWindowLow

\* A second encode_ub_change, on an encoder that does not reserve, that
\* lowered the window of the root and gave it keys
NoKeyBelowWindowWitness ==
  /\ ~inverted /\ ~reserve_vars /\ ~panicked
  /\ n_encs = 2 /\ last.op = "encode_ub_change" /\ last.minted > 0
  /\ first.cnf # <<>> /\ first.min > last.min
  /\ root.kind = "internal" /\ root.min_max_enc # None
  /\ root.min_max_enc[1] = last.min + 1
  /\ \E k \in DOMAIN root.out_lits : k = root.min_max_enc[1]

(***************************************************************************)
(* The facility-location Encoding iterator                                 *)
(***************************************************************************)
MaxObjs == 2
MaxCustomers == 2
MaxFacilities == 2
MaxNoneCalls == 2

\* The sizes FacilityLocation reports: n_objs(), n_customers(), n_facilities()
Instances ==
  [n_objs : 1..MaxObjs, n_customers : 0..MaxCustomers, n_facilities : 0..MaxFacilities]

\* enum Line, and None for the Option around it
LineOf(kind, a, b) == [kind |-> kind, a |-> a, b |-> b]
NoLine == LineOf("None", 0, 0)

\* The closures of next(): the variable index of a literal
selected(d, customer, facility) == customer * d.n_facilities + facility
opening(d, facility) == d.n_facilities * d.n_customers + facility

\* The lines next() returns
HintLine(d) ==
  [kind |-> "Comment", text |-> "hint",
   n_variables |-> (d.n_customers + 1) * d.n_facilities,
   n_constraints |-> d.n_customers * (d.n_facilities + 1), lits |-> <<>>]
DescriptionLine ==
  [kind |-> "Comment", text |-> "description", n_variables |-> 0, n_constraints |-> 0,
   lits |-> <<>>]
ObjectiveLine(d, objidx) ==
  [kind |-> "Objective", idx |-> objidx,
   lits |-> [i \in 1..(d.n_customers * d.n_facilities) |->
               selected(d, (i - 1) \div d.n_facilities, (i - 1) % d.n_facilities)]
            \o [i \in 1..d.n_facilities |-> opening(d, i - 1)]]
CardLine(d, customer) ==
  [kind |-> "Card", customer |-> customer,
   lits |-> [i \in 1..d.n_facilities |-> selected(d, customer, i - 1)]]
ClauseLine(d, fac, customer) ==
  [kind |-> "Clause", fac |-> fac, customer |-> customer,
   lits |-> <<selected(d, customer, fac), opening(d, fac)>>]

\* Encoding::new
NewEncoding(d) == <<d, LineOf("Hint", 0, 0), <<>>, 0>>

\* Encoding::next: the line it returns and the next_line it leaves
NextOf(d, line) ==
  IF line.kind = "Hint"
  THEN [item |-> HintLine(d), next_line |-> LineOf("Description", 0, 0)]
  ELSE IF line.kind = "Description"
  THEN [item |-> DescriptionLine, next_line |-> LineOf("Objective", 0, 0)]
  ELSE IF line.kind = "Objective"
  THEN [item |-> ObjectiveLine(d, line.a),
        next_line |-> IF line.a + 1 < d.n_objs
                      THEN LineOf("Objective", line.a + 1, 0)
                      ELSE LineOf("OneFacility", 0, 0)]
  ELSE IF line.kind = "OneFacility"
  THEN [item |-> CardLine(d, line.a),
        next_line |-> IF line.a + 1 < d.n_customers
                      THEN LineOf("OneFacility", line.a + 1, 0)
                      ELSE LineOf("MustOpen", 0, 0)]
  ELSE [item |-> ClauseLine(d, line.a, line.b),
        next_line |-> IF line.b + 1 < d.n_customers
                      THEN LineOf("MustOpen", line.a, line.b + 1)
                      ELSE IF line.a + 1 < d.n_facilities
                      THEN LineOf("MustOpen", line.a + 1, 0)
                      ELSE NoLine]

\* A call of next() that returns a line
YieldLine ==
  /\ next_line # NoLine
  /\ \E r \in {NextOf(data, next_line)} :
       /\ next_line' = r.next_line
       /\ yielded' = Append(yielded, r.item)
  /\ UNCHANGED <<data, n_nones>>
  /\ UNCHANGED <<enc, next_free, panicked, last, emitted, first, n_encs, added, n_returned>>

\* A call of next() that returns None; take() leaves None in next_line
YieldNone ==
  /\ next_line = NoLine
  /\ data \in Instances
  /\ n_nones < MaxNoneCalls
  /\ n_nones' = n_nones + 1
  /\ UNCHANGED <<data, next_line, yielded>>
  /\ UNCHANGED <<enc, next_free, panicked, last, emitted, first, n_encs, added, n_returned>>

\* The iterator over an instance of any size, no encoder in use
InitFl ==
  /\ SetInit(NewEncoder(FALSE, FALSE))
  /\ next_free = NumLits
  /\ panicked = FALSE
  /\ last = NoCall
  /\ emitted = {}
  /\ first = NoFirst
  /\ n_encs = 0
  /\ added = [l \in Lits |-> 0]
  /\ n_returned = 0
  /\ \E d \in Instances : SetInitFl(NewEncoding(d))
NextFl == YieldLine \/ YieldNone
SpecFl == InitFl /\ [][NextFl]_vars

\* s is the beginning of t
IsPrefix(s, t) == Len(s) <= Len(t) /\ SubSeq(t, 1, Len(s)) = s

\* The lines in their order: the hint, the description, the objectives by
\* index, a cardinality line for each customer, a clause for each facility
\* and customer, by facility and then by customer
LinesInOrder(d) ==
  <<HintLine(d), DescriptionLine>>
    \o [i \in 1..d.n_objs |-> ObjectiveLine(d, i - 1)]
    \o [i \in 1..d.n_customers |-> CardLine(d, i - 1)]
    \o [i \in 1..(d.n_facilities * d.n_customers) |->
          ClauseLine(d, (i - 1) \div d.n_customers, (i - 1) % d.n_customers)]

(***************************************************************************)
(* C29: the facility-location iterator yields its lines in a fixed order   *)
(* and then stops: one hint comment, one description comment, exactly      *)
(* n_objs objective lines by index, exactly one OneFacility cardinality    *)
(* line for each customer in the order of the customers, exactly one       *)
(* MustOpen clause for each (facility, customer) pair by facility and then *)
(* by customer, and after that next() returns None on every later call.    *)
(***************************************************************************)
LinesInFixedOrder ==
  data \in Instances =>
    /\ IsPrefix(yielded, LinesInOrder(data))
    /\ next_line = NoLine => yielded = LinesInOrder(data)
    /\ n_nones > 0 => next_line = NoLine

\* The constraint lines among those yielded
ConstraintLines == SelectSeq(yielded, LAMBDA l : l.kind \in {"Card", "Clause"})

(***************************************************************************)
(* C30: for every instance size, zero customers or zero facilities         *)
(* included, the number of constraint lines the iterator yields,           *)
(* cardinality lines and clauses, is the n_customers * (n_facilities + 1)  *)
(* its hint line announces, and every literal used has a variable index    *)
(* below the (n_customers + 1) * n_facilities it announces.                *)
(***************************************************************************)
HintMatchesLines ==
  (data \in Instances /\ next_line = NoLine) =>
    /\ Len(ConstraintLines) = yielded[1].n_constraints
    /\ \A i \in 1..Len(yielded) : \A j \in 1..Len(yielded[i].lits) :
         yielded[i].lits[j] < yielded[1].n_variables

====
